---- MODULE Spec2Model ----
(***************************************************************************)
(* A model of jsonpath/core.py: the expression nodes with their chain      *)
(* links, the context variables, the depth-first driver and the local      *)
(* find of every node class.                                               *)
(*                                                                         *)
(* JSON values are tagged pairs <<tag, payload>>:                          *)
(*   <<"null", 0>>  <<"bool", b>>  <<"int", i>>  <<"str", chars>>          *)
(*   <<"arr", items>>  <<"obj", pairs>>   (pairs: <<key chars, value>>,    *)
(*   in insertion order).                                                  *)
(* An expression node is a record [k, a, b, c]: its class and its          *)
(* constructor arguments, each <<"none", 0>>, <<"int", i>>, <<"expr", n>>, *)
(* <<"name", chars>> or <<"lit", value>>.  Nodes are numbered 1..n.        *)
(***************************************************************************)
EXTENDS Integers, Sequences, FiniteSets, TLC

VARIABLES
    node,        \* node id -> [k, a, b, c]: class and constructor arguments
    ref_begin,   \* node id -> node id or None: Expr.ref_begin
    ref_right,   \* node id -> node id or None: Expr.ref_right
    left,        \* node id -> node id or None: Expr.left
    entry,       \* the node the host calls find / find_first / find_iter on
    doc,         \* gen id -> the document handed to that evaluation
    var_root,    \* ContextVar "root"
    var_parent,  \* ContextVar "parent"
    var_self,    \* ContextVar "self"
    var_finding, \* ContextVar "finding"
    gen,         \* gen id -> the find_iter generator object of that evaluation
    res_find,    \* what the last find call returned or raised
    res_first,   \* what the last find_first call returned or raised
    hist         \* the chain calls made so far (construction history)

vars == <<node, ref_begin, ref_right, left, entry, doc, var_root, var_parent,
          var_self, var_finding, gen, res_find, res_first, hist>>

-----------------------------------------------------------------------------
(* Bounds of the model *)

\* integers of the documents and of the comparison bounds are 0..MaxInt
MaxInt == 2
\* arrays of the documents have at most MaxLen items
MaxLen == 3
\* nesting depth of the documents searched recursively
MaxDepth == 2
\* chain calls made in the construction specification, and the nodes they
\* are made on
MaxChainCalls == 3
NumChainNodes == 3

-----------------------------------------------------------------------------
(* JSON values *)

None == 0
Unset == <<"unset", 0>>
NoArg == <<"none", 0>>

JNull == <<"null", 0>>
JBool(b) == <<"bool", b>>
JInt(i) == <<"int", i>>
JStr(s) == <<"str", s>>
JArr(items) == <<"arr", items>>
JObj(pairs) == <<"obj", pairs>>

Tag(v) == v[1]
Val(v) == v[2]

IsList(v) == Tag(v) = "arr"
IsDict(v) == Tag(v) = "obj"
\* isinstance(v, int): bool is a subclass of int
IsInt(v) == Tag(v) \in {"int", "bool"}
NumVal(v) == IF Tag(v) = "bool" THEN (IF Val(v) THEN 1 ELSE 0) ELSE Val(v)

\* bool(v) of a JSON value
Truthy(v) ==
    CASE Tag(v) = "null" -> FALSE
      [] Tag(v) = "bool" -> Val(v)
      [] Tag(v) = "int" -> Val(v) # 0
      [] OTHER -> Len(Val(v)) > 0

Keys(o) == [i \in 1..Len(Val(o)) |-> Val(o)[i][1]]
Values(o) == [i \in 1..Len(Val(o)) |-> Val(o)[i][2]]
HasKey(o, key) == \E i \in 1..Len(Val(o)) : Val(o)[i][1] = key
Lookup(o, key) == Val(o)[CHOOSE i \in 1..Len(Val(o)) : Val(o)[i][1] = key][2]

RECURSIVE PyEq(_, _)
\* a == b on JSON values
PyEq(a, b) ==
    CASE IsInt(a) /\ IsInt(b) -> NumVal(a) = NumVal(b)
      [] IsList(a) /\ IsList(b) ->
            /\ Len(Val(a)) = Len(Val(b))
            /\ \A i \in 1..Len(Val(a)) : PyEq(Val(a)[i], Val(b)[i])
      [] IsDict(a) /\ IsDict(b) ->
            /\ Len(Val(a)) = Len(Val(b))
            /\ \A i \in 1..Len(Val(a)) :
                  /\ HasKey(b, Val(a)[i][1])
                  /\ PyEq(Val(a)[i][2], Lookup(b, Val(a)[i][1]))
      [] OTHER -> a = b

-----------------------------------------------------------------------------
(* Results of a find: a list, JSONPathFindError, or another exception *)

Ok(list) == [st |-> "ok", v |-> list, e |-> ""]
NotFound == [st |-> "nf", v |-> <<>>, e |-> "JSONPathFindError"]
Err(kind) == [st |-> "err", v |-> <<>>, e |-> kind]
NoResult == [st |-> "none", v |-> <<>>, e |-> ""]

-----------------------------------------------------------------------------
(* Chain links *)

\* Expr.__init__: left, ref_right and ref_begin are None
Fresh(n) == [i \in 1..n |-> None]

\* the three link fields as one record
Links == [ref_begin |-> ref_begin, ref_right |-> ref_right, left |-> left]

\* self.ref_begin once chain has made an unchained self its own begin
ChainBeginOfSelf(L, self) ==
    IF L.ref_begin[self] = None THEN self ELSE L.ref_begin[self]

\* a faulty variant: next_expr.ref_begin = weakref.ref(self)
ChainBeginIsLeft(L, self, next_expr) ==
    [ref_begin |-> [L.ref_begin EXCEPT ![self] = ChainBeginOfSelf(L, self),
                                       ![next_expr] = self],
     left |-> [L.left EXCEPT ![next_expr] = self],
     ref_right |-> [L.ref_right EXCEPT ![self] = next_expr]]

\* Expr.chain(self, next_expr) on the links L: the links after the call
Chain(L, self, next_expr) ==
    [ref_begin |-> [L.ref_begin EXCEPT ![self] = ChainBeginOfSelf(L, self),
                                       ![next_expr] = ChainBeginOfSelf(L, self)],
     left |-> [L.left EXCEPT ![next_expr] = self],
     ref_right |-> [L.ref_right EXCEPT ![self] = next_expr]]

\* Expr.chain: return next_expr
ChainReturn(L, self, next_expr) == next_expr

\* Expr.get_begin
get_begin(L, n) == IF L.ref_begin[n] = None THEN n ELSE L.ref_begin[n]

\* Expr.get_next
get_next(L, n) == L.ref_right[n]

RECURSIVE ChainAll(_, _)
\* the chain calls of a construction, made in order
ChainAll(L, calls) ==
    IF calls = <<>> THEN L
    ELSE ChainAll(Chain(L, calls[1][1], calls[1][2]), Tail(calls))

-----------------------------------------------------------------------------
(* The context variables, as one record handed through an evaluation *)

Ctx == [root |-> var_root, parent |-> var_parent, self |-> var_self,
        finding |-> var_finding]

IsUnset(x) == x[1] = "unset"

\* the (key, value) pair Predicate.find stores in var_self
SelfItem(key, value) == <<"item", key, value>>

-----------------------------------------------------------------------------
(* Comparison, membership and slicing of the host language *)

Alphabet == <<"a", "b", "c", "d", "e">>
CharOrd(ch) == CHOOSE i \in 1..Len(Alphabet) : Alphabet[i] = ch

\* the first index at which two sequences differ, or 0
Least(D) == IF D = {} THEN 0 ELSE CHOOSE i \in D : \A j \in D : i <= j
FirstDiff(x, y, eq(_, _)) ==
    Least({i \in 1..(IF Len(x) < Len(y) THEN Len(x) ELSE Len(y)) :
              ~eq(x[i], y[i])})

Sign(i) == IF i < 0 THEN -1 ELSE IF i > 0 THEN 1 ELSE 0
TypeError == 2

RECURSIVE PyCmp(_, _)
\* the order of two strings that first differ at index d (0: nowhere)
StrCmpAt(x, y, d) ==
    IF d = 0 THEN Sign(Len(x) - Len(y))
    ELSE Sign(CharOrd(x[d]) - CharOrd(y[d]))

\* the order of two lists that first differ at index d (0: nowhere)
ListCmpAt(x, y, d) ==
    IF d = 0 THEN Sign(Len(x) - Len(y)) ELSE PyCmp(x[d], y[d])

\* the order of a and b: -1, 0, 1, or TypeError when the host has none
PyCmp(a, b) ==
    CASE IsInt(a) /\ IsInt(b) -> Sign(NumVal(a) - NumVal(b))
      [] Tag(a) = "str" /\ Tag(b) = "str" ->
            StrCmpAt(Val(a), Val(b),
                     FirstDiff(Val(a), Val(b), LAMBDA x, y : x = y))
      [] IsList(a) /\ IsList(b) ->
            ListCmpAt(Val(a), Val(b), FirstDiff(Val(a), Val(b), PyEq))
      [] OTHER -> TypeError

\* target in container: Ok(<<bool>>) or TypeError
IsSubSeq(x, y) ==
    \E i \in 0..(Len(y) - Len(x)) : \A j \in 1..Len(x) : y[i + j] = x[j]

PyIn(target, container) ==
    CASE Tag(container) = "str" ->
            IF Tag(target) = "str"
            THEN Ok(<<JBool(IsSubSeq(Val(target), Val(container)))>>)
            ELSE Err("TypeError")
      [] IsList(container) ->
            Ok(<<JBool(\E i \in 1..Len(Val(container)) :
                          PyEq(Val(container)[i], target))>>)
      [] IsDict(container) ->
            IF Tag(target) \in {"arr", "obj"} THEN Err("TypeError")
            ELSE Ok(<<JBool(Tag(target) = "str"
                            /\ HasKey(container, Val(target)))>>)
      [] OTHER -> Err("TypeError")

RECURSIVE SliceFrom(_, _, _, _)
\* the items of s at the 0-based indices i, i + step, ... before stop
SliceFrom(s, i, stop, step) ==
    IF (step > 0 /\ i >= stop) \/ (step < 0 /\ i <= stop) THEN <<>>
    ELSE <<s[i + 1]>> \o SliceFrom(s, i + step, stop, step)

\* a slice bound i brought into lo..hi, a negative one counted from the end
Clamp(i, n, lo, hi) ==
    IF i < 0 THEN (IF i + n < lo THEN lo ELSE i + n)
    ELSE (IF i > hi THEN hi ELSE i)

\* s[start:stop:step] with the three given as integers, step # 0
PySlice(s, start, stop, step) ==
    IF step < 0
    THEN SliceFrom(s, Clamp(start, Len(s), -1, Len(s) - 1),
                   Clamp(stop, Len(s), -1, Len(s) - 1), step)
    ELSE SliceFrom(s, Clamp(start, Len(s), 0, Len(s)),
                   Clamp(stop, Len(s), 0, Len(s)), step)

-----------------------------------------------------------------------------
(* The local find of every node class.  find is the wrapper ExprMeta puts  *)
(* around each of them; c is the context at the call.  Where a method      *)
(* binds the result of a nested call to a name, the rest of the method is  *)
(* an operator taking that result.                                         *)

RECURSIVE find(_, _, _)

Arg(n) == node[n].a
TargetArg(n) == node[n].b

\* Value.find
ValueFind(n, element, c) == Ok(<<Arg(n)[2]>>)

\* Root.find: var_root.get() raises LookupError when the root is not set
RootFind(n, element, c) ==
    IF IsUnset(c.root) THEN Err("LookupError") ELSE Ok(<<c.root>>)

\* Name.find
NameFind(n, element, c) ==
    IF ~IsDict(element) THEN NotFound
    ELSE IF Arg(n) = NoArg THEN Ok(Values(element))
    ELSE IF ~HasKey(element, Arg(n)[2]) THEN NotFound
    ELSE Ok(<<Lookup(element, Arg(n)[2])>>)

\* element[idx] under suppress(IndexError): an index out of range leaves
\* the with block and reaches the raise at the end of Array.find
ArrayIndex(items, idx) ==
    IF idx >= 0 /\ idx < Len(items) THEN Ok(<<items[idx + 1]>>)
    ELSE IF idx < 0 /\ -idx <= Len(items) THEN Ok(<<items[Len(items) + idx + 1]>>)
    ELSE NotFound

\* Array.find
ArrayFind(n, element, c) ==
    IF ~IsList(element) THEN NotFound
    ELSE CASE Arg(n) = NoArg -> Ok(Val(element))
           [] Tag(Arg(n)) = "int" -> ArrayIndex(Val(element), Arg(n)[2])
           [] Tag(Arg(n)) = "expr" -> find(Arg(n)[2], element, c)
           [] OTHER -> Err("AssertionError")

\* enumerate(element) or element.items()
Items(element) ==
    IF IsList(element)
    THEN [i \in 1..Len(Val(element)) |-> SelfItem(JInt(i - 1), Val(element)[i])]
    ELSE [i \in 1..Len(Val(element)) |->
             SelfItem(JStr(Val(element)[i][1]), Val(element)[i][2])]

\* if rv and rv[0]: filtered_items.append(value)
PredicateKeep(filtered_items, value, rv) ==
    IF rv.v # <<>> /\ Truthy(rv.v[1]) THEN Append(filtered_items, value)
    ELSE filtered_items

RECURSIVE PredicateLoop(_, _, _, _, _)
\* the body of the for loop of Predicate.find, rv = self.expr.find(value)
PredicateItem(n, items, i, c, filtered_items, rv) ==
    IF rv.st # "ok" THEN rv
    ELSE PredicateLoop(n, items, i + 1, c,
                       PredicateKeep(filtered_items, items[i][3], rv))

\* the for loop of Predicate.find from the i-th item on
PredicateLoop(n, items, i, c, filtered_items) ==
    IF i > Len(items) THEN Ok(filtered_items)
    ELSE PredicateItem(n, items, i, c, filtered_items,
            find(Arg(n)[2], items[i][3],
                 [c EXCEPT !.self = items[i], !.finding = FALSE]))

\* Predicate.find
PredicateFind(n, element, c) ==
    IF ~(IsList(element) \/ IsDict(element)) THEN NotFound
    ELSE PredicateLoop(n, Items(element), 1, c, <<>>)

\* Slice._ensure_int_or_none after value.find: the first result, an int
EnsureInt(found_elements) ==
    IF found_elements.st # "ok" THEN found_elements
    ELSE IF found_elements.v = <<>> \/ ~IsInt(found_elements.v[1]) THEN NotFound
    ELSE Ok(<<NumVal(found_elements.v[1])>>)

\* Slice._ensure_int_or_none: Ok(<<int>>), Ok(<<>>) for None, or a raise
EnsureIntOrNone(value, c) ==
    CASE value = NoArg -> Ok(<<>>)
      [] Tag(value) = "int" -> Ok(<<value[2]>>)
      [] OTHER ->
            IF IsUnset(c.parent) THEN Err("LookupError")
            ELSE EnsureInt(find(value[2], c.parent, [c EXCEPT !.finding = FALSE]))

\* the defaults of Slice.find and element[start:end:step]
SliceOf(items, start, end, step) ==
    IF step.v # <<>> /\ step.v[1] = 0 THEN Err("ValueError")
    ELSE Ok(PySlice(items,
                    IF start.v = <<>> THEN 0 ELSE start.v[1],
                    IF end.v = <<>> THEN Len(items) ELSE end.v[1],
                    IF step.v = <<>> THEN 1 ELSE step.v[1]))

\* Slice.find once the three bounds are resolved, in that order
SliceBounds(items, start, end, step) ==
    IF start.st # "ok" THEN start
    ELSE IF end.st # "ok" THEN end
    ELSE IF step.st # "ok" THEN step
    ELSE SliceOf(items, start, end, step)

\* Slice.find
SliceFind(n, element, c) ==
    IF ~IsList(element) THEN Err("AssertionError")
    ELSE SliceBounds(Val(element), EnsureIntOrNone(node[n].a, c),
                     EnsureIntOrNone(node[n].b, c), EnsureIntOrNone(node[n].c, c))

\* a faulty variant: return self._expr.find(element), the list not wrapped
BraceUnwrapped(rv) == rv

\* return [self._expr.find(element)]
BraceWrap(rv) == IF rv.st # "ok" THEN rv ELSE Ok(<<JArr(rv.v)>>)

\* Brace.find
BraceFind(n, element, c) ==
    BraceWrap(find(Arg(n)[2], element, [c EXCEPT !.finding = FALSE]))

\* the children _recursive_find descends into
Children(element) ==
    IF IsList(element) THEN Val(element)
    ELSE IF IsDict(element) THEN Values(element)
    ELSE <<>>

RECURSIVE recursive_find(_, _, _, _)
RECURSIVE RecursiveFindChildren(_, _, _, _, _)
\* _recursive_find after find_rv = expr.find(element), Ok(..) or raised
RecursiveFound(expr, element, rv, c, find_rv) ==
    IF find_rv.st = "err" THEN find_rv
    ELSE RecursiveFindChildren(expr, Children(element), 1,
            IF find_rv.st = "ok" THEN rv \o find_rv.v ELSE rv,
            [c EXCEPT !.parent = element])

\* a faulty variant: the children are visited before the element itself
RecursiveOwnLast(r, find_rv) ==
    IF r.st # "ok" THEN r
    ELSE IF find_rv.st = "err" THEN find_rv
    ELSE IF find_rv.st = "ok" THEN Ok(r.v \o find_rv.v)
    ELSE r
recursive_find_children_first(expr, element, rv, c) ==
    RecursiveOwnLast(RecursiveFindChildren(expr, Children(element), 1, rv,
                                           [c EXCEPT !.parent = element]),
                     find(expr, element, c))

\* _recursive_find(expr, element, rv): Ok(rv after the call) or a raise
recursive_find(expr, element, rv, c) ==
    RecursiveFound(expr, element, rv, c, find(expr, element, c))

\* the for loops of _recursive_find after the call on the i-th child
RecursiveChild(expr, items, i, c, r) ==
    IF r.st # "ok" THEN r
    ELSE RecursiveFindChildren(expr, items, i + 1, r.v, c)

\* the for loops of _recursive_find, from the i-th child on
RecursiveFindChildren(expr, items, i, rv, c) ==
    IF i > Len(items) THEN Ok(rv)
    ELSE RecursiveChild(expr, items, i, c, recursive_find(expr, items[i], rv, c))

\* Search.find
SearchFind(n, element, c) ==
    IF node[Arg(n)[2]].k = "Predicate"
    THEN recursive_find(Arg(n)[2], JArr(<<element>>), <<>>, c)
    ELSE recursive_find(Arg(n)[2], element, <<>>, c)

\* Self.find
SelfFind(n, element, c) ==
    IF IsUnset(c.self) THEN Ok(<<element>>) ELSE Ok(<<c.self[3]>>)

\* Compare.get_target_value after rv = self.target.find(value)
TargetValue(rv) ==
    IF rv.st # "ok" THEN rv
    ELSE IF rv.v = <<>> THEN NotFound
    ELSE Ok(<<rv.v[1]>>)

\* Compare.get_target_value: Ok(<<value>>) or a raise
get_target_value(n, c) ==
    IF Tag(Arg(n)) = "expr"
    THEN IF IsUnset(c.self) THEN Err("LookupError")
         ELSE TargetValue(find(Arg(n)[2], c.self[3], [c EXCEPT !.finding = FALSE]))
    ELSE Ok(<<Arg(n)[2]>>)

\* an ordering comparison given the order o of its operands
OrderOp(k, o) ==
    IF o = TypeError THEN Err("TypeError")
    ELSE Ok(<<JBool(CASE k = "LessThan" -> o < 0
                      [] k = "LessEqual" -> o <= 0
                      [] k = "GreaterEqual" -> o >= 0
                      [] k = "GreaterThan" -> o > 0)>>)

\* the comparison of a Compare subclass on two values
CompareOp(k, x, y) ==
    CASE k = "Equal" -> Ok(<<JBool(PyEq(x, y))>>)
      [] k = "NotEqual" -> Ok(<<JBool(~PyEq(x, y))>>)
      [] OTHER -> OrderOp(k, PyCmp(x, y))

\* [element < self.get_target_value()] with t the target value
CompareWith(k, element, t) ==
    IF t.st # "ok" THEN t ELSE CompareOp(k, element, t.v[1])

\* LessThan.find ... NotEqual.find
CompareFind(n, element, c) ==
    CompareWith(node[n].k, element, get_target_value(n, c))

\* And.find: element and self.get_target_value()
AndFind(n, element, c) ==
    IF ~Truthy(element) THEN Ok(<<element>>) ELSE get_target_value(n, c)

\* Or.find: element or self.get_target_value()
OrFind(n, element, c) ==
    IF Truthy(element) THEN Ok(<<element>>) ELSE get_target_value(n, c)

\* Key.find
KeyFind(n, element, c) ==
    IF IsUnset(c.self) THEN Err("LookupError") ELSE Ok(<<c.self[2]>>)

\* Contains.find with an Expr target, rv = self._target.find(element)
ContainsTarget(root_arg, rv) ==
    IF rv.st # "ok" THEN rv
    ELSE IF rv.v = <<>> THEN Ok(<<>>)
    ELSE PyIn(rv.v[1], root_arg)

\* Contains.find after rv = self._expr.find(element)
ContainsIn(n, element, c, rv) ==
    IF rv.st # "ok" THEN rv
    ELSE IF rv.v = <<>> THEN Ok(<<>>)
    ELSE IF Tag(TargetArg(n)) = "expr"
    THEN ContainsTarget(rv.v[1], find(TargetArg(n)[2], element,
                                      [c EXCEPT !.finding = FALSE]))
    ELSE PyIn(TargetArg(n)[2], rv.v[1])

\* Contains.find
ContainsFind(n, element, c) ==
    ContainsIn(n, element, c, find(Arg(n)[2], element, c))

\* a faulty variant: return [not rv], the list negated as a whole
NotOfList(rv) ==
    IF rv.st # "ok" THEN rv ELSE Ok(<<JBool(rv.v = <<>>)>>)

\* return [not v for v in rv]
NotEach(rv) ==
    IF rv.st # "ok" THEN rv
    ELSE Ok([i \in 1..Len(rv.v) |-> JBool(~Truthy(rv.v[i]))])

\* Not.find
NotFind(n, element, c) ==
    NotEach(find(Arg(n)[2], element, [c EXCEPT !.finding = FALSE]))

\* the find method the class of node n defines
actual_find(n, element, c) ==
    CASE node[n].k = "Value" -> ValueFind(n, element, c)
      [] node[n].k = "Root" -> RootFind(n, element, c)
      [] node[n].k = "Name" -> NameFind(n, element, c)
      [] node[n].k = "Array" -> ArrayFind(n, element, c)
      [] node[n].k = "Predicate" -> PredicateFind(n, element, c)
      [] node[n].k = "Slice" -> SliceFind(n, element, c)
      [] node[n].k = "Brace" -> BraceFind(n, element, c)
      [] node[n].k = "Search" -> SearchFind(n, element, c)
      [] node[n].k = "Self" -> SelfFind(n, element, c)
      [] node[n].k = "And" -> AndFind(n, element, c)
      [] node[n].k = "Or" -> OrFind(n, element, c)
      [] node[n].k = "Key" -> KeyFind(n, element, c)
      [] node[n].k = "Contains" -> ContainsFind(n, element, c)
      [] node[n].k = "Not" -> NotFind(n, element, c)
      [] OTHER -> CompareFind(n, element, c)

-----------------------------------------------------------------------------
(* The driver, run to exhaustion *)

RECURSIVE dfs_find(_, _, _, _)
\* the values of one element followed by those of the elements after it
DfsJoin(here, rest) ==
    IF here.st # "ok" THEN here
    ELSE IF rest.st # "ok" THEN rest
    ELSE Ok(here.v \o rest.v)

\* a faulty variant: the driver without its except clause
DfsElementUncaught(expr, elements, i, c, found_elements) ==
    IF found_elements.st # "ok" THEN found_elements
    ELSE IF found_elements.v = <<>> THEN dfs_find(expr, elements, i + 1, c)
    ELSE DfsJoin(IF get_next(Links, expr) = None THEN found_elements
                 ELSE dfs_find(get_next(Links, expr), found_elements.v, 1,
                               [c EXCEPT !.parent = elements[i]]),
                 dfs_find(expr, elements, i + 1, c))

\* the body of the for loop of _dfs_find, found_elements = expr.find(element)
DfsElement(expr, elements, i, c, found_elements) ==
    IF found_elements.st = "err" THEN found_elements
    ELSE IF found_elements.st = "nf" \/ found_elements.v = <<>>
    THEN dfs_find(expr, elements, i + 1, c)
    ELSE DfsJoin(IF get_next(Links, expr) = None THEN found_elements
                 ELSE dfs_find(get_next(Links, expr), found_elements.v, 1,
                               [c EXCEPT !.parent = elements[i]]),
                 dfs_find(expr, elements, i + 1, c))

\* list(_dfs_find(expr, elements)) from the i-th element on: Ok(the values
\* yielded) or the exception that ends the generator
dfs_find(expr, elements, i, c) ==
    IF i > Len(elements) THEN Ok(<<>>)
    ELSE DfsElement(expr, elements, i, c, find(expr, elements[i], c))

\* list(self.find_iter(element))
list_find_iter(n, element, c) ==
    dfs_find(get_begin(Links, n), <<element>>, 1,
             [c EXCEPT !.root = IF IsUnset(c.root) THEN element ELSE c.root,
                       !.finding = TRUE])

\* the except clause of the wrapper: a chained expr returns [], a lone one
\* raises again
Suppress(n, r) ==
    IF r.st = "nf" /\ ref_begin[n] # None THEN Ok(<<>>) ELSE r

\* the find ExprMeta.__new__ installs on every class
find(n, element, c) ==
    IF c.finding THEN Suppress(n, actual_find(n, element, c))
    ELSE list_find_iter(n, element, c)

-----------------------------------------------------------------------------
(* The driver as a generator: the frames of _dfs_find under find_iter.     *)
(* A frame is one _dfs_find call: its expr, next_expr, elements, the index *)
(* i of the element at hand, found_elements with the index j of the item   *)
(* last yielded, and the token of its temporary_set(var_parent, element).  *)

Frame(expr, elements) ==
    [expr |-> expr, next_expr |-> get_next(Links, expr), elements |-> elements,
     i |-> 1, found |-> <<>>, j |-> 0, token |-> Unset]

Top(frames) == frames[Len(frames)]
Pop(frames) == SubSeq(frames, 1, Len(frames) - 1)
SetTop(frames, f) == Append(Pop(frames), f)

\* what a step of the generator ends with: a value yielded, StopIteration,
\* or an exception
Yielded(frames, c, value) ==
    [st |-> "yield", frames |-> frames, c |-> c, y |-> <<value>>, e |-> ""]
Returned(c) == [st |-> "done", frames |-> <<>>, c |-> c, y |-> <<>>, e |-> ""]
Raised(c, kind) ==
    [st |-> "raise", frames |-> <<>>, c |-> c, y |-> <<>>, e |-> kind]

\* temporary_set, the finally clause: context_var.reset(token)
ResetParent(c, token) == [c EXCEPT !.parent = token]

\* a faulty variant: the frames reset var_parent outermost first
RECURSIVE UnwindFrom(_, _, _)
UnwindFrom(frames, k, c) ==
    IF k >= Len(frames) THEN c
    ELSE UnwindFrom(frames, k + 1, ResetParent(c, frames[k].token))
UnwindOutermostFirst(frames, c) == UnwindFrom(frames, 1, c)

RECURSIVE Unwind(_, _)
\* an exception (or GeneratorExit) leaves the frames innermost first; every
\* frame but the innermost is inside its with block
Unwind(frames, c) ==
    IF Len(frames) <= 1 THEN c
    ELSE Unwind(Pop(frames), ResetParent(c, frames[Len(frames) - 1].token))

RECURSIVE GenLoop(_, _)
\* the innermost frame is exhausted: the frame below leaves its with block
\* and goes on with its next element
GenReturn(frames, c) ==
    IF Len(frames) = 1 THEN Returned(c)
    ELSE GenLoop(SetTop(Pop(frames),
                        [frames[Len(frames) - 1] EXCEPT !.i = @ + 1]),
                 ResetParent(c, frames[Len(frames) - 1].token))

\* the body of the for loop, found_elements = expr.find(element)
GenElement(frames, c, found_elements) ==
    IF found_elements.st = "err"
    THEN Raised(Unwind(frames, c), found_elements.e)
    ELSE IF found_elements.st = "nf" \/ found_elements.v = <<>>
    THEN GenLoop(SetTop(frames, [Top(frames) EXCEPT !.i = @ + 1]), c)
    ELSE IF Top(frames).next_expr = None
    THEN Yielded(SetTop(frames, [Top(frames) EXCEPT !.found = found_elements.v,
                                                    !.j = 1]),
                 c, found_elements.v[1])
    ELSE GenLoop(Append(SetTop(frames, [Top(frames) EXCEPT !.token = c.parent]),
                        Frame(Top(frames).next_expr, found_elements.v)),
                 [c EXCEPT !.parent = Top(frames).elements[Top(frames).i]])

\* run the for loop of the innermost frame until the next yield
GenLoop(frames, c) ==
    IF Top(frames).i > Len(Top(frames).elements) THEN GenReturn(frames, c)
    ELSE GenElement(frames, c,
                    find(Top(frames).expr, Top(frames).elements[Top(frames).i], c))

\* a faulty variant: yield found_elements[0] in place of yield from
GenResumeFirstOnly(frames, c) ==
    GenLoop(SetTop(frames, [Top(frames) EXCEPT !.i = @ + 1,
                                               !.found = <<>>, !.j = 0]), c)

\* a faulty variant: the items yielded are popped off found_elements
GenResumePop(frames, c) ==
    IF Len(Top(frames).found) > 1
    THEN Yielded(SetTop(frames, [Top(frames) EXCEPT !.found = Tail(@)]), c,
                 Top(frames).found[2])
    ELSE GenLoop(SetTop(frames, [Top(frames) EXCEPT !.i = @ + 1,
                                                    !.found = <<>>, !.j = 0]), c)

\* resume the innermost frame after its yield
GenResume(frames, c) ==
    IF Top(frames).j < Len(Top(frames).found)
    THEN Yielded(SetTop(frames, [Top(frames) EXCEPT !.j = @ + 1]), c,
                 Top(frames).found[Top(frames).j + 1])
    ELSE GenLoop(SetTop(frames, [Top(frames) EXCEPT !.i = @ + 1,
                                                    !.found = <<>>, !.j = 0]), c)

\* the generator object of find_iter: token_root tells whether this call
\* set var_root, token_finding is the value var_finding had before
NoGen ==
    [status |-> "none", frames |-> <<>>, token_root |-> FALSE,
     token_finding |-> FALSE, out |-> <<>>, e |-> ""]

\* find_iter leaves: the with block resets var_finding, the finally clause
\* resets var_root when this call set it
FindIterExit(g, c) ==
    [c EXCEPT !.finding = g.token_finding,
              !.root = IF g.token_root THEN Unset ELSE c.root]

Status(st) ==
    CASE st = "yield" -> "suspended"
      [] st = "done" -> "done"
      [] st = "raise" -> "raised"

\* the element at hand of the innermost frame is the document d itself: the
\* argument of find_iter, or what Root.find returned for it
AtDocument(frames, d) ==
    /\ Top(frames).elements[Top(frames).i] = d
    /\ \/ Len(frames) = 1
       \/ Len(frames) = 2 /\ node[frames[1].expr].k = "Root"

\* Array.find returns the element itself (return element): the list the
\* innermost frame yields from is then the document's own list
FoundIsDocument(frames, d) ==
    /\ frames # <<>>
    /\ Top(frames).j > 0
    /\ node[Top(frames).expr].k = "Array"
    /\ Arg(Top(frames).expr) = NoArg
    /\ AtDocument(frames, d)

\* the document after a step of the driver: what the driver did to a list
\* that is the document's own, it did to the document
DocAfter(frames, d) ==
    IF FoundIsDocument(frames, d) THEN JArr(Top(frames).found) ELSE d

\* the generator, the context and the document after a step that ended as r
Stepped(g, r, d) ==
    [g |-> [g EXCEPT !.status = Status(r.st), !.frames = r.frames,
                     !.out = g.out \o r.y, !.e = r.e],
     c |-> IF r.st = "yield" THEN r.c ELSE FindIterExit(g, r.c),
     d |-> DocAfter(r.frames, d)]

\* the first next(): the body of find_iter up to its first yield
FindIterStart(g, n, element, c) ==
    Stepped([g EXCEPT !.token_root = IsUnset(c.root),
                      !.token_finding = c.finding],
            GenLoop(<<Frame(get_begin(Links, n), <<element>>)>>,
                    [c EXCEPT !.root = IF IsUnset(c.root) THEN element
                                       ELSE c.root,
                              !.finding = TRUE]),
            element)

\* next() on a suspended generator
FindIterNext(g, c, d) == Stepped(g, GenResume(g.frames, c), d)

\* close() or finalisation of a suspended generator: GeneratorExit is raised
\* at the yield
FindIterClose(g, c, d) ==
    [g |-> [g EXCEPT !.status = "closed", !.frames = <<>>],
     c |-> FindIterExit(g, Unwind(g.frames, c)),
     d |-> d]

RECURSIVE RunAll(_)
\* list() on a generator: s is the generator, the context and the document
\* after a step
RunAll(s) ==
    IF s.g.status = "suspended" THEN RunAll(FindIterNext(s.g, s.c, s.d)) ELSE s

\* list(self.find_iter(element)): the generator, the context and the
\* document after it
ListFindIter(n, element, c) == RunAll(FindIterStart(NoGen, n, element, c))

-----------------------------------------------------------------------------
(* Expressions built by the host, and the documents handed to them *)

MkNode(k, a, b, c) == [k |-> k, a |-> a, b |-> b, c |-> c]
MkRoot == MkNode("Root", NoArg, NoArg, NoArg)
MkSelf == MkNode("Self", NoArg, NoArg, NoArg)
MkName(s) == MkNode("Name", <<"name", s>>, NoArg, NoArg)
MkAllNames == MkNode("Name", NoArg, NoArg, NoArg)
MkArray(idx) == MkNode("Array", idx, NoArg, NoArg)
MkNested(k, n) == MkNode(k, <<"expr", n>>, NoArg, NoArg)
MkCompare(k, target) == MkNode(k, target, NoArg, NoArg)
Lit(v) == <<"lit", v>>

\* an expression: its nodes in order of construction, the chain calls made
\* on them in order, and the node the host holds
Program(nodes, calls, e) == [nodes |-> nodes, calls |-> calls, entry |-> e]

FieldNames == {<<"a">>, <<"b">>}
Ints == 0..MaxInt

\* Name(s)
LoneName(s) == Program(<<MkName(s)>>, <<>>, 1)
\* Root().Name(s)
RootName(s) == Program(<<MkRoot, MkName(s)>>, << <<1, 2>> >>, 2)
\* Root().Array()
RootArray == Program(<<MkRoot, MkArray(NoArg)>>, << <<1, 2>> >>, 2)
\* Root().Array().Name(s)
RootArrayName(s) ==
    Program(<<MkRoot, MkArray(NoArg), MkName(s)>>, << <<1, 2>>, <<2, 3>> >>, 3)
\* Root().Name().Array(): all fields, then all items of each
RootNamesArray ==
    Program(<<MkRoot, MkAllNames, MkArray(NoArg)>>, << <<1, 2>>, <<2, 3>> >>, 3)
\* Root().Array(i)
RootIndex(i) == Program(<<MkRoot, MkArray(<<"int", i>>)>>, << <<1, 2>> >>, 2)
\* Root().Predicate(Name(s) == 1)
RootPredicateEqual(s) ==
    Program(<<MkName(s), MkCompare("Equal", Lit(JInt(1))), MkRoot,
              MkNested("Predicate", 2)>>,
            << <<1, 2>>, <<3, 4>> >>, 4)
\* Root().Predicate(Not(Name(s)))
RootPredicateNot(s) ==
    Program(<<MkName(s), MkNested("Not", 1), MkRoot, MkNested("Predicate", 2)>>,
            << <<3, 4>> >>, 4)
\* Root().Search(Name(s))
RootSearch(s) ==
    Program(<<MkName(s), MkRoot, MkNested("Search", 1)>>, << <<2, 3>> >>, 3)
\* Brace(Root().Predicate(Self() < hi)).Predicate(Self() >= lo)
BraceChain(lo, hi) ==
    Program(<<MkSelf, MkCompare("LessThan", Lit(JInt(hi))), MkRoot,
              MkNested("Predicate", 2), MkNested("Brace", 4),
              MkSelf, MkCompare("GreaterEqual", Lit(JInt(lo))),
              MkNested("Predicate", 7)>>,
            << <<1, 2>>, <<3, 4>>, <<6, 7>>, <<5, 8>> >>, 8)
\* Brace(Root().Predicate(Self() < hi))
BraceOnly(hi) ==
    Program(<<MkSelf, MkCompare("LessThan", Lit(JInt(hi))), MkRoot,
              MkNested("Predicate", 2), MkNested("Brace", 4)>>,
            << <<1, 2>>, <<3, 4>> >>, 5)

\* Root().Array(0).chain(Brace(Root().Predicate(Self() < hi))): the Brace is
\* handed an item, its Root is the document
IndexBrace(hi) ==
    Program(<<MkSelf, MkCompare("LessThan", Lit(JInt(hi))), MkRoot,
              MkNested("Predicate", 2), MkNested("Brace", 4),
              MkRoot, MkArray(<<"int", 0>>)>>,
            << <<1, 2>>, <<3, 4>>, <<6, 7>>, <<7, 5>> >>, 5)

SeqsUpTo(S, n) == UNION {[1..k -> S] : k \in 0..n}

\* arrays of integers
IntArrays == {JArr(s) : s \in SeqsUpTo({JInt(i) : i \in Ints}, MaxLen)}

\* objects in which field s is true, false, 0, 1 or absent
Objects(s) ==
    {JObj(<<>>), JObj(<< <<<<"c">>, JBool(TRUE)>> >>)}
    \cup {JObj(<< <<s, v>> >>) : v \in {JBool(TRUE), JBool(FALSE), JInt(0), JInt(1)}}
ObjArrays(s) == {JArr(x) : x \in SeqsUpTo(Objects(s), MaxLen)}
ShortObjArrays(s) == {JArr(x) : x \in SeqsUpTo(Objects(s), MaxLen - 1)}

\* nested documents with fields a and b
RECURSIVE Trees(_)
Grow(T) ==
    T \cup {JObj(<< <<<<"a">>, x>> >>) : x \in T}
      \cup {JObj(<< <<<<"b">>, x>>, <<<<"a">>, y>> >>) :
               x \in T, y \in {JInt(0), JInt(1)}}
      \cup {JArr(<<y, x>>) : x \in T, y \in {JInt(0), JInt(1)}}
Trees(depth) ==
    IF depth = 0 THEN {JInt(0), JInt(1)} ELSE Grow(Trees(depth - 1))

-----------------------------------------------------------------------------
(* The state after construction *)

G == {1, 2}

CleanCtx == [root |-> Unset, parent |-> Unset, self |-> Unset, finding |-> FALSE]

Bounds == 0..(MaxInt + 1)

GenericPrograms ==
    {RootArray, RootNamesArray}
    \cup {LoneName(s) : s \in FieldNames}
    \cup {RootName(s) : s \in FieldNames}
    \cup {RootArrayName(s) : s \in FieldNames}
    \cup {RootPredicateEqual(s) : s \in FieldNames}
    \cup {RootIndex(i) : i \in {-1, 0, 1}}

GenericDocs == ShortObjArrays(<<"a">>) \cup Trees(MaxDepth)

\* the (expression, document) pairs the host evaluates
Cases ==
    (GenericPrograms \X GenericDocs)
    \cup ({RootPredicateNot(s) : s \in FieldNames} \X ObjArrays(<<"a">>))
    \cup ({RootSearch(s) : s \in FieldNames} \X Trees(MaxDepth))
    \cup (({BraceChain(lo, hi) : lo \in Bounds, hi \in Bounds}
             \cup {BraceOnly(hi) : hi \in Bounds}
             \cup {IndexBrace(hi) : hi \in Bounds}) \X IntArrays)

FreshLinks(n) ==
    [ref_begin |-> Fresh(n), ref_right |-> Fresh(n), left |-> Fresh(n)]

\* the state once the host has built the nodes, made the chain calls that
\* leave the links L, and holds the documents
Built(nodes, L, e, docs) ==
    /\ node = nodes
    /\ ref_begin = L.ref_begin
    /\ ref_right = L.ref_right
    /\ left = L.left
    /\ entry = e
    /\ doc = docs
    /\ var_root = Unset
    /\ var_parent = Unset
    /\ var_self = Unset
    /\ var_finding = FALSE
    /\ gen = [g \in G |-> NoGen]
    /\ res_find = [g \in G |-> NoResult]
    /\ res_first = [g \in G |-> NoResult]
    /\ hist = <<>>

BuiltProgram(p, docs) ==
    Built(p.nodes, ChainAll(FreshLinks(Len(p.nodes)), p.calls), p.entry, docs)

Init == \E cs \in Cases : BuiltProgram(cs[1], <<cs[2], cs[2]>>)

-----------------------------------------------------------------------------
(* The calls of the host *)

SetCtx(c) ==
    /\ var_root' = c.root
    /\ var_parent' = c.parent
    /\ var_self' = c.self
    /\ var_finding' = c.finding

\* the generator g, the context and the document become those of s
SetGen(g, s) ==
    /\ gen' = [gen EXCEPT ![g] = s.g]
    /\ SetCtx(s.c)
    /\ doc' = [doc EXCEPT ![g] = s.d]

\* it = entry.find_iter(doc): the generator object is made, nothing runs
IterCreate(g) ==
    /\ gen[g].status = "none"
    /\ gen' = [gen EXCEPT ![g] = [NoGen EXCEPT !.status = "created"]]
    /\ UNCHANGED <<node, ref_begin, ref_right, left, entry, doc, var_root,
                   var_parent, var_self, var_finding, res_find, res_first, hist>>

\* next(it)
IterNext(g) ==
    /\ gen[g].status \in {"created", "suspended"}
    /\ SetGen(g, IF gen[g].status = "created"
                 THEN FindIterStart(gen[g], entry, doc[g], Ctx)
                 ELSE FindIterNext(gen[g], Ctx, doc[g]))
    /\ UNCHANGED <<node, ref_begin, ref_right, left, entry, res_find,
                   res_first, hist>>

\* it.close(), or the finalisation of a generator the consumer dropped
IterClose(g) ==
    /\ gen[g].status = "suspended"
    /\ SetGen(g, FindIterClose(gen[g], Ctx, doc[g]))
    /\ UNCHANGED <<node, ref_begin, ref_right, left, entry, res_find,
                   res_first, hist>>

\* the context and the document entry.find(doc) leaves: the local find
\* nests its bindings; list(self.find_iter(element)) leaves what the
\* generator leaves
AfterFind(n, element, c) ==
    IF c.finding THEN [c |-> c, d |-> element]
    ELSE [c |-> ListFindIter(n, element, c).c,
          d |-> ListFindIter(n, element, c).d]

SetAfter(g, s) ==
    /\ SetCtx(s.c)
    /\ doc' = [doc EXCEPT ![g] = s.d]

\* entry.find(doc)
CallFind(g) ==
    /\ res_find' = [res_find EXCEPT ![g] = find(entry, doc[g], Ctx)]
    /\ SetAfter(g, AfterFind(entry, doc[g], Ctx))
    /\ UNCHANGED <<node, ref_begin, ref_right, left, entry, gen,
                   res_first, hist>>

\* a faulty variant: if not rv: raise JSONPathFindError
FirstOfTruthy(s) ==
    CASE s.g.status = "suspended" ->
            [r |-> IF Truthy(s.g.out[1]) THEN Ok(s.g.out) ELSE NotFound,
             c |-> FindIterClose(s.g, s.c, s.d).c, d |-> s.d]
      [] s.g.status = "done" -> [r |-> NotFound, c |-> s.c, d |-> s.d]
      [] s.g.status = "raised" -> [r |-> Err(s.g.e), c |-> s.c, d |-> s.d]

\* rv = next(self.find_iter(element), notfound); the generator is dropped,
\* and so finalised, as soon as next returns
FirstOf(s) ==
    CASE s.g.status = "suspended" ->
            [r |-> Ok(s.g.out), c |-> FindIterClose(s.g, s.c, s.d).c, d |-> s.d]
      [] s.g.status = "done" -> [r |-> NotFound, c |-> s.c, d |-> s.d]
      [] s.g.status = "raised" -> [r |-> Err(s.g.e), c |-> s.c, d |-> s.d]

\* Expr.find_first: the value returned (as a one-item list) or the raise,
\* and the context and the document after the call
find_first(n, element, c) == FirstOf(FindIterStart(NoGen, n, element, c))

SetFirst(g, f) ==
    /\ res_first' = [res_first EXCEPT ![g] = f.r]
    /\ SetAfter(g, f)

\* entry.find_first(doc)
CallFindFirst(g) ==
    /\ SetFirst(g, find_first(entry, doc[g], Ctx))
    /\ UNCHANGED <<node, ref_begin, ref_right, left, entry, gen,
                   res_find, hist>>

\* no lazy evaluation is suspended
Quiescent == \A g \in G : gen[g].status # "suspended"

\* one evaluation at a time: the host calls find and find_first, and
\* consumes one find_iter, stopping where it likes
Next ==
    \/ IterCreate(1)
    \/ IterNext(1)
    \/ IterClose(1)
    \/ Quiescent /\ res_find[1] = NoResult /\ CallFind(1)
    \/ Quiescent /\ res_first[1] = NoResult /\ CallFindFirst(1)

Spec == Init /\ [][Next]_vars

-----------------------------------------------------------------------------
(* Two lazy evaluations in one thread: either generator may be created,    *)
(* advanced and closed, and find called, while the other is suspended.     *)

InterleavedPrograms ==
    {RootArray, RootName(<<"a">>), RootArrayName(<<"a">>)}

InterleavedDocs ==
    {JArr(<<JInt(0), JInt(1)>>),
     JObj(<< <<<<"a">>, JInt(2)>> >>),
     JArr(<<JObj(<< <<<<"a">>, JInt(0)>> >>), JObj(<< <<<<"a">>, JInt(1)>> >>)>>)}

InitInterleaved ==
    \E p \in InterleavedPrograms, d1 \in InterleavedDocs, d2 \in InterleavedDocs :
        BuiltProgram(p, <<d1, d2>>)

NextInterleaved ==
    \/ \E g \in G : IterCreate(g)
    \/ \E g \in G : IterNext(g)
    \/ \E g \in G : IterClose(g)
    \/ \E g \in G : res_find[g] = NoResult /\ CallFind(g)

SpecInterleaved == InitInterleaved /\ [][NextInterleaved]_vars

-----------------------------------------------------------------------------
(* Construction: chain calls on fresh nodes, each recorded in hist with    *)
(* the value it returned.                                                  *)

ChainNodes == 1..NumChainNodes

InitChain ==
    Built([n \in ChainNodes |-> MkName(<<"a">>)], FreshLinks(NumChainNodes), 1,
          <<JNull, JNull>>)

\* x.chain(y)
ChainCall(x, y) ==
    /\ Len(hist) < MaxChainCalls
    /\ ref_begin' = Chain(Links, x, y).ref_begin
    /\ ref_right' = Chain(Links, x, y).ref_right
    /\ left' = Chain(Links, x, y).left
    /\ hist' = Append(hist, [self |-> x, next_expr |-> y,
                             rv |-> ChainReturn(Links, x, y)])
    /\ UNCHANGED <<node, entry, doc, var_root, var_parent, var_self,
                   var_finding, gen, res_find, res_first>>

NextChain == \E x \in ChainNodes, y \in ChainNodes : ChainCall(x, y)

SpecChain == InitChain /\ [][NextChain]_vars

-----------------------------------------------------------------------------
(* The operators: functions, slices and boolean operators, one evaluation  *)
(* at a time.                                                              *)

\* Not(Not(e)) for the expression e the program p builds
NotNot(p) ==
    Program(p.nodes \o <<MkNested("Not", p.entry),
                          MkNested("Not", Len(p.nodes) + 1)>>,
            p.calls, Len(p.nodes) + 2)

\* Self() and Root() on their own
LoneSelf == Program(<<MkSelf>>, <<>>, 1)
LoneRoot == Program(<<MkRoot>>, <<>>, 1)

\* values of every truthiness
TruthValues ==
    {JNull, JBool(FALSE), JBool(TRUE), JInt(0), JInt(1), JStr(<<>>),
     JStr(<<"a">>), JArr(<<>>), JArr(<<JInt(0)>>), JObj(<<>>),
     JObj(<< <<<<"a">>, JInt(0)>> >>)}
TruthDocs == TruthValues \cup {JArr(s) : s \in SeqsUpTo(TruthValues, MaxLen - 1)}

NotNotCases ==
    ({NotNot(p) : p \in {RootArray, LoneSelf, LoneRoot}} \X TruthDocs)
    \cup ({NotNot(p) : p \in {RootArrayName(<<"a">>), LoneName(<<"a">>),
                               RootNamesArray, RootName(<<"a">>)}}
            \X (ShortObjArrays(<<"a">>) \cup Objects(<<"a">>)))

\* Contains(Name(s), target)
ContainsName(s, target) ==
    Program(<<MkName(s), MkNode("Contains", <<"expr", 1>>, Lit(target), NoArg)>>,
            <<>>, 2)
\* Contains(Name("a").Name("b"), target)
ContainsChain(target) ==
    Program(<<MkName(<<"a">>), MkName(<<"b">>),
              MkNode("Contains", <<"expr", 2>>, Lit(target), NoArg)>>,
            << <<1, 2>> >>, 3)
\* Root().Predicate(Contains(Name("a").Name("b"), target))
PredicateContainsChain(target) ==
    Program(<<MkName(<<"a">>), MkName(<<"b">>),
              MkNode("Contains", <<"expr", 2>>, Lit(target), NoArg),
              MkRoot, MkNested("Predicate", 3)>>,
            << <<1, 2>>, <<4, 5>> >>, 5)

\* objects whose field a or b, or field b of field a, is a list
Containers == {JArr(<<>>), JArr(<<JInt(0)>>), JArr(<<JInt(1), JInt(0)>>)}
ContainsDocs ==
    {JObj(<<>>)}
    \cup {JObj(<< <<s, x>> >>) : s \in FieldNames, x \in Containers}
    \cup {JObj(<< <<<<"a">>, JObj(<< <<<<"b">>, x>> >>)>> >>) : x \in Containers}
    \cup {JObj(<< <<<<"b">>, y>>, <<<<"a">>, JObj(<< <<<<"b">>, x>> >>)>> >>) :
               x \in Containers, y \in Containers}

ContainsCases ==
    (({ContainsName(s, JInt(1)) : s \in FieldNames} \cup {ContainsChain(JInt(1))})
        \X ContainsDocs)
    \cup ({PredicateContainsChain(JInt(1))}
            \X {JArr(s) : s \in SeqsUpTo(ContainsDocs, 1)})

\* Root().Array(Slice(start, stop, step))
RootSlice(start, stop, step) ==
    Program(<<MkRoot, MkNode("Slice", start, stop, step), MkArray(<<"expr", 2>>)>>,
            << <<1, 3>> >>, 3)

\* [0, 1, ..., n - 1]
Counting(n) == JArr([i \in 1..n |-> JInt(i - 1)])
SliceDocs == {Counting(n) : n \in 0..MaxLen}
\* a bound absent, or an integer within, at or beyond either end of the list
SliceBound == {NoArg} \cup {<<"int", i>> : i \in -(MaxLen + 1)..(MaxLen + 1)}
SliceStep == {NoArg} \cup {<<"int", i>> : i \in -MaxInt..MaxInt}
SliceCases ==
    {RootSlice(start, stop, step) :
        start \in SliceBound, stop \in SliceBound, step \in SliceStep}
    \X SliceDocs

\* Root().Predicate(Name(l).And(Name(r))), or the same with Or: k is the
\* class of the operator
PredicateBoolean(k, l, r) ==
    Program(<<MkName(l), MkCompare(k, <<"expr", 3>>), MkName(r), MkRoot,
              MkNested("Predicate", 2)>>,
            << <<1, 2>>, <<4, 5>> >>, 5)

\* the field s absent, falsy or truthy
Field(s) == {<<>>} \cup {<< <<s, v>> >> : v \in {JInt(0), JInt(1)}}
\* objects in which each of the fields a and b is absent, 0 or 1
Pairs == {JObj(x \o y) : x \in Field(<<"a">>), y \in Field(<<"b">>)}
BooleanCases ==
    {PredicateBoolean(k, <<"a">>, <<"b">>) : k \in {"And", "Or"}}
    \X {JArr(s) : s \in SeqsUpTo(Pairs, MaxLen - 1)}

MkKey == MkNode("Key", NoArg, NoArg, NoArg)
\* Key()
LoneKey == Program(<<MkKey>>, <<>>, 1)
\* Root().Key()
RootKey == Program(<<MkRoot, MkKey>>, << <<1, 2>> >>, 2)
\* Root().Equal(Name(s))
RootEqualName(s) ==
    Program(<<MkRoot, MkCompare("Equal", <<"expr", 3>>), MkName(s)>>,
            << <<1, 2>> >>, 2)
\* Array(Slice(Name(s)))
ArraySliceName(s) ==
    Program(<<MkName(s), MkNode("Slice", <<"expr", 1>>, NoArg, NoArg),
              MkArray(<<"expr", 2>>)>>,
            <<>>, 3)
\* Root().Name("b").Array(Slice(Name(s)))
RootNameSliceName(s) ==
    Program(<<MkRoot, MkName(<<"b">>), MkName(s),
              MkNode("Slice", <<"expr", 3>>, NoArg, NoArg),
              MkArray(<<"expr", 4>>)>>,
            << <<1, 2>>, <<2, 5>> >>, 5)

\* lists, and objects with a list in field b and a number or nothing in a
UnboundDocs ==
    SliceDocs
    \cup {JObj(<< <<<<"b">>, Counting(MaxLen)>> >>)}
    \cup {JObj(<< <<<<"b">>, Counting(MaxLen)>>, <<<<"a">>, v>> >>) :
              v \in {JInt(i) : i \in Ints} \cup {JNull}}
UnboundCases ==
    ({LoneKey, RootKey}
        \cup {RootEqualName(s) : s \in FieldNames}
        \cup {ArraySliceName(s) : s \in FieldNames}
        \cup {RootNameSliceName(s) : s \in FieldNames})
    \X UnboundDocs

OperatorCases ==
    NotNotCases \cup ContainsCases \cup SliceCases \cup BooleanCases
    \cup UnboundCases

InitOperators == \E cs \in OperatorCases : BuiltProgram(cs[1], <<cs[2], cs[2]>>)

SpecOperators == InitOperators /\ [][Next]_vars

-----------------------------------------------------------------------------
(* Properties *)

\* the host built the expression p
IsProgram(p) == node = p.nodes /\ entry = p.entry

\* C1: find_first returns the first element of what find returns when that
\* is non-empty, and raises JSONPathFindError when it is empty.
C1_FindFirstIsHeadOfFind ==
    (res_find[1].st = "ok" /\ res_first[1] # NoResult) =>
        IF res_find[1].v # <<>>
        THEN res_first[1] = Ok(<<Head(res_find[1].v)>>)
        ELSE res_first[1] = NotFound

\* find returned two different values or more, and find_first the first
C1_Witness ==
    /\ res_find[1].st = "ok"
    /\ Len(res_find[1].v) >= 2
    /\ res_find[1].v[1] # res_find[1].v[2]
    /\ res_first[1] = Ok(<<res_find[1].v[1]>>)

\* C2: a JSONPathFindError raised by a local find during an outer find or
\* find_iter never reaches the caller: find returns a list and the generator
\* of find_iter ends without raising it, for a chained and for a lone expr.
C2_NotFoundNeverEscapes ==
    /\ res_find[1].st # "nf"
    /\ ~(gen[1].status = "raised" /\ gen[1].e = NotFound.e)

\* a lone Name whose local find raises on the document: find returned [] and
\* find_iter ended having yielded nothing
C2_Witness ==
    /\ ref_begin[entry] = None
    /\ actual_find(entry, doc[1], [CleanCtx EXCEPT !.finding = TRUE]) = NotFound
    /\ res_find[1] = Ok(<<>>)
    /\ gen[1].status = "done"
    /\ gen[1].out = <<>>

\* C3: the values find_iter yields, consumed to exhaustion, are the list
\* find returns: same elements, same order, same length.
C3_FindIterYieldsFind ==
    (gen[1].status = "done" /\ res_find[1] # NoResult) =>
        res_find[1] = Ok(gen[1].out)

\* a chain of three nodes whose find_iter was exhausted after two yields or
\* more
C3_Witness ==
    /\ gen[1].status = "done"
    /\ Len(gen[1].out) >= 2
    /\ res_find[1] = Ok(gen[1].out)
    /\ left[entry] # None
    /\ left[left[entry]] # None

\* C4: once find, find_first or find_iter has exited (normally, by
\* JSONPathFindError, or closed by the consumer at a yield) the four context
\* variables have the values they had before the call.  Every call of this
\* specification is made with no evaluation in progress, so those are the
\* values of the initial state; with nested bindings the outcome is that of
\* LIFO resets only.
C4_BindingsRestored == Quiescent => Ctx = CleanCtx

\* the consumer closed the generator of a chain of three nodes at a yield,
\* two var_parent bindings deep
C4_Witness ==
    /\ gen[1].status = "closed"
    /\ gen[1].out # <<>>
    /\ left[entry] # None
    /\ left[left[entry]] # None
    /\ Ctx = CleanCtx

\* C5: interleaved evaluations do not share bindings: an evaluation started
\* and advanced while another is suspended at a yield yields, and a find
\* called then returns, what it does when run alone.
C5_EvaluationsIsolated ==
    \A g \in G :
        /\ gen[g].status = "done" =>
              Ok(gen[g].out) = find(entry, doc[g], CleanCtx)
        /\ res_find[g] # NoResult =>
              res_find[g] = find(entry, doc[g], CleanCtx)

\* the second evaluation ran to its end while the first was suspended, and
\* yielded what the expression finds in the first one's document
C5_RootOfTheOther ==
    /\ gen[1].status = "suspended"
    /\ gen[2].status = "done"
    /\ Ok(gen[2].out) = find(entry, doc[1], CleanCtx)
    /\ Ok(gen[2].out) # find(entry, doc[2], CleanCtx)

\* C6: evaluation is read-only: no step of find, find_first or find_iter
\* changes the document, a node's payload, or a next or begin link.
C6_ReadOnly ==
    [][/\ doc' = doc
       /\ node' = node
       /\ ref_begin' = ref_begin
       /\ ref_right' = ref_right
       /\ left' = left]_vars

\* the generator is suspended in yield from over the document's own list,
\* two items of it yielded
C6_Witness ==
    /\ gen[1].status = "suspended"
    /\ FoundIsDocument(gen[1].frames, doc[1])
    /\ Len(gen[1].out) >= 2

\* field s of an object is absent or falsy
AbsentOrFalsy(item, s) == ~HasKey(item, s) \/ ~Truthy(Lookup(item, s))
\* field s of an object is there and falsy
PresentAndFalsy(item, s) == HasKey(item, s) /\ ~Truthy(Lookup(item, s))

\* C7: Predicate(Not(Name(s))) on an array of objects returns, in order,
\* the items in which field s is absent or falsy.
C7_NotSelectsAbsentOrFalsy ==
    \A s \in FieldNames :
        (IsProgram(RootPredicateNot(s)) /\ res_find[1] # NoResult) =>
            res_find[1] = Ok(SelectSeq(Val(doc[1]),
                                       LAMBDA item : AbsentOrFalsy(item, s)))

\* what find returns instead: the items in which field s is there and falsy
C7_NotSelectsPresentAndFalsy ==
    \A s \in FieldNames :
        (IsProgram(RootPredicateNot(s)) /\ res_find[1] # NoResult) =>
            res_find[1] = Ok(SelectSeq(Val(doc[1]),
                                       LAMBDA item : PresentAndFalsy(item, s)))

\* the document [{"a": true}, {"a": false}, {}]: find returned [{"a": false}]
C7_AbsentNotSelected ==
    /\ IsProgram(RootPredicateNot(<<"a">>))
    /\ doc[1] = JArr(<<JObj(<< <<<<"a">>, JBool(TRUE)>> >>),
                       JObj(<< <<<<"a">>, JBool(FALSE)>> >>),
                       JObj(<<>>)>>)
    /\ res_find[1] = Ok(<<JObj(<< <<<<"a">>, JBool(FALSE)>> >>)>>)

\* the values of key s in the tree v in pre-order: the match of v itself,
\* then those of its children, in order
OwnMatch(v, s) == IF IsDict(v) /\ HasKey(v, s) THEN <<Lookup(v, s)>> ELSE <<>>
KidsOf(v) ==
    IF Tag(v) \in {"arr", "obj"}
    THEN [i \in 1..Len(Val(v)) |-> IF Tag(v) = "arr" THEN Val(v)[i]
                                   ELSE Val(v)[i][2]]
    ELSE <<>>
RECURSIVE PreOrder(_, _)
RECURSIVE PreOrderEach(_, _, _)
PreOrderEach(items, i, s) ==
    IF i > Len(items) THEN <<>>
    ELSE PreOrder(items[i], s) \o PreOrderEach(items, i + 1, s)
PreOrder(v, s) == OwnMatch(v, s) \o PreOrderEach(KidsOf(v), 1, s)

Below(items, hi) == SelectSeq(items, LAMBDA x : Val(x) < hi)
Within(items, lo, hi) == SelectSeq(items, LAMBDA x : lo <= Val(x) /\ Val(x) < hi)

\* C9: Brace(Root().Predicate(Self() < hi)).Predicate(Self() >= lo) finds in
\* an array of integers the items x with lo <= x < hi, in order; the local
\* find of the Brace returns one list holding the whole inner result, the
\* Root inside it being the outer document.
C9_BraceChained ==
    \A hi \in Bounds :
        /\ \A lo \in Bounds :
              (IsProgram(BraceChain(lo, hi)) /\ res_find[1] # NoResult) =>
                  res_find[1] = Ok(Within(Val(doc[1]), lo, hi))
        /\ (IsProgram(BraceOnly(hi)) /\ res_find[1] # NoResult) =>
              res_find[1] = Ok(<<JArr(Below(Val(doc[1]), hi))>>)
        /\ (IsProgram(IndexBrace(hi)) /\ res_find[1] # NoResult) =>
              res_find[1] = IF Val(doc[1]) = <<>> THEN Ok(<<>>)
                            ELSE Ok(<<JArr(Below(Val(doc[1]), hi))>>)

\* an array with an item below lo, one within and one from hi up: find
\* returned the one within
C9_Witness ==
    \E lo \in Bounds, hi \in Bounds :
        /\ IsProgram(BraceChain(lo, hi))
        /\ res_find[1].st = "ok"
        /\ Len(res_find[1].v) = 1
        /\ \E i, j \in 1..Len(Val(doc[1])) :
              Val(Val(doc[1])[i]) < lo /\ Val(Val(doc[1])[j]) >= hi

\* the construction a.chain(b).chain(c) on fresh nodes: two calls, the
\* second made on what the first returned
IsABC(a, b, c) ==
    /\ Cardinality({a, b, c}) = 3
    /\ Len(hist) = 2
    /\ hist[1].self = a
    /\ hist[1].next_expr = b
    /\ hist[2].self = hist[1].rv
    /\ hist[2].next_expr = c

\* no chain call was made on node n or with it
Unchained(n) ==
    \A i \in 1..Len(hist) : hist[i].self # n /\ hist[i].next_expr # n

\* C10: after a.chain(b).chain(c) on fresh nodes a, b and c all have begin a,
\* next(a) = b, next(b) = c and c has no next; chain returns its argument; a
\* node never chained is its own begin and has no next.
C10_ChainLinks ==
    /\ \A a \in ChainNodes, b \in ChainNodes, c \in ChainNodes :
          IsABC(a, b, c) =>
              /\ get_begin(Links, a) = a
              /\ get_begin(Links, b) = a
              /\ get_begin(Links, c) = a
              /\ get_next(Links, a) = b
              /\ get_next(Links, b) = c
              /\ get_next(Links, c) = None
    /\ \A i \in 1..Len(hist) : hist[i].rv = hist[i].next_expr
    /\ \A n \in ChainNodes :
          Unchained(n) => get_begin(Links, n) = n /\ get_next(Links, n) = None

\* the construction 1.chain(2).chain(3) was made
C10_Witness == IsABC(1, 2, 3)

\* the host built Not(Not(e)); e is then node InnerOfNotNot
IsNotNot == node[entry].k = "Not" /\ node[Arg(entry)[2]].k = "Not"
InnerOfNotNot == Arg(Arg(entry)[2])[2]
\* the truthiness of every value of a list
TruthOfEach(values) == [i \in 1..Len(values) |-> JBool(Truthy(values[i]))]

\* C11: Not(Not(e)).find(x) is a list of booleans as long as e.find(x),
\* its i-th item the truthiness of the i-th item of e.find(x); it is empty
\* when e.find(x) is.
C11_NotNotIsTruthiness ==
    (IsNotNot /\ res_find[1] # NoResult) =>
        /\ find(InnerOfNotNot, doc[1], CleanCtx).st = "ok"
        /\ res_find[1] =
              Ok(TruthOfEach(find(InnerOfNotNot, doc[1], CleanCtx).v))

\* e found a falsy value and then a truthy one, and Not(Not(e)) returned
\* [false, true]
C11_Witness ==
    /\ IsNotNot
    /\ Len(find(InnerOfNotNot, doc[1], CleanCtx).v) = 2
    /\ Tag(find(InnerOfNotNot, doc[1], CleanCtx).v[1]) # "bool"
    /\ res_find[1] = Ok(<<JBool(FALSE), JBool(TRUE)>>)

\* the nodes met following next from node n, n first, k of them at most
RECURSIVE WalkFrom(_, _)
WalkFrom(n, k) ==
    IF k = 0 \/ n = None THEN <<>>
    ELSE <<n>> \o WalkFrom(get_next(Links, n), k - 1)
\* the walk from the begin of node n, cut off one node after all could have
\* been met
ChainOf(n) == WalkFrom(get_begin(Links, n), NumChainNodes + 1)
OnChainOf(m, n) == \E i \in 1..Len(ChainOf(n)) : ChainOf(n)[i] = m

\* C12: after any sequence of chain calls, following next from the begin of
\* any node ends at a tail without meeting a node twice, every node met
\* reports that begin, and no node is met from two different begins.
C12_ChainInvariant ==
    \A n \in ChainNodes :
        /\ Len(ChainOf(n)) <= NumChainNodes
        /\ \A i \in 1..Len(ChainOf(n)) :
              /\ get_begin(Links, ChainOf(n)[i]) = get_begin(Links, n)
              /\ \A j \in 1..Len(ChainOf(n)) :
                    ChainOf(n)[i] = ChainOf(n)[j] => i = j
        /\ \A m \in ChainNodes, o \in ChainNodes :
              (OnChainOf(m, n) /\ OnChainOf(m, o)) =>
                  get_begin(Links, n) = get_begin(Links, o)

\* one call x.chain(x): x is its own next
C12_SelfLoop ==
    /\ Len(hist) = 1
    /\ hist[1].self = hist[1].next_expr
    /\ get_next(Links, hist[1].self) = hist[1].self

\* the host built Contains(inner, target) with a literal target
IsContains == node[entry].k = "Contains" /\ Tag(TargetArg(entry)) = "lit"
\* the membership test on the first of the values rv the inner expr found
ContainsOf(target, rv) ==
    IF rv.v = <<>> THEN Ok(<<>>) ELSE PyIn(target, rv.v[1])

\* C13: the container Contains tests is the first result of the whole inner
\* chain, evaluated from its begin on the element as an outer find would;
\* Contains returns [] when that result is empty.
C13_ContainsWholeChain ==
    (IsContains /\ res_find[1] # NoResult) =>
        res_find[1] = ContainsOf(TargetArg(entry)[2],
                                 find(Arg(entry)[2], doc[1], CleanCtx))

\* Contains(Name("a").Name("b"), 1) on {"a": {"b": [1, 0]}}: the chain finds
\* [1, 0], which holds 1, and find returned []
C13_TailOnly ==
    /\ IsProgram(ContainsChain(JInt(1)))
    /\ doc[1] = JObj(<< <<<<"a">>,
                          JObj(<< <<<<"b">>, JArr(<<JInt(1), JInt(0)>>)>> >>)>> >>)
    /\ find(Arg(entry)[2], doc[1], CleanCtx) = Ok(<<JArr(<<JInt(1), JInt(0)>>)>>)
    /\ res_find[1] = Ok(<<>>)

\* the host built Root().Array(Slice(start, stop, step)), each of the three
\* an integer or absent, and evaluates it on a list
IsRootSlice ==
    /\ Len(node) = 3 /\ entry = 3
    /\ node[1].k = "Root" /\ node[2].k = "Slice" /\ node[3].k = "Array"
    /\ Arg(3) = <<"expr", 2>>
    /\ \A x \in {node[2].a, node[2].b, node[2].c} : x = NoArg \/ Tag(x) = "int"
    /\ IsList(doc[1])
\* the step of a slice whose step is omitted
StepOr1(step) == IF step = NoArg THEN 1 ELSE step[2]
\* s[start:stop:step] of the host language with an absent bound omitted:
\* the slice runs from the first item for a positive step, from the last
\* item down to the first for a negative one
OmittedSlice(s, start, stop, step) ==
    IF step < 0
    THEN SliceFrom(s,
                   IF start = NoArg THEN Len(s) - 1
                   ELSE Clamp(start[2], Len(s), -1, Len(s) - 1),
                   IF stop = NoArg THEN -1
                   ELSE Clamp(stop[2], Len(s), -1, Len(s) - 1),
                   step)
    ELSE SliceFrom(s,
                   IF start = NoArg THEN 0 ELSE Clamp(start[2], Len(s), 0, Len(s)),
                   IF stop = NoArg THEN Len(s)
                   ELSE Clamp(stop[2], Len(s), 0, Len(s)),
                   step)

\* C14: Array(Slice(start, stop, step)) with a non-zero step returns the
\* list slice elem[start:stop:step] with every absent bound omitted, for a
\* positive and for a negative step.
C14_SliceIsListSlice ==
    (IsRootSlice /\ StepOr1(node[2].c) # 0 /\ res_find[1] # NoResult) =>
        res_find[1] = Ok(OmittedSlice(Val(doc[1]), node[2].a, node[2].b,
                                      StepOr1(node[2].c)))

\* Root().Array(Slice(None, None, -1)) on [0, 1, 2]: the reversed list is
\* [2, 1, 0] and find returned []
C14_ReversedIsEmpty ==
    /\ IsProgram(RootSlice(NoArg, NoArg, <<"int", -1>>))
    /\ doc[1] = Counting(3)
    /\ OmittedSlice(Val(doc[1]), NoArg, NoArg, -1) = <<JInt(2), JInt(1), JInt(0)>>
    /\ res_find[1] = Ok(<<>>)

\* the same statement for the positive steps only
C14_PositiveStep ==
    (IsRootSlice /\ StepOr1(node[2].c) > 0 /\ res_find[1] # NoResult) =>
        res_find[1] = Ok(OmittedSlice(Val(doc[1]), node[2].a, node[2].b,
                                      StepOr1(node[2].c)))

\* the host built Root().Predicate(Name(l).And(Name(r))) or the same with
\* Or, and evaluates it on a list
IsPredicateBoolean ==
    /\ Len(node) = 5 /\ entry = 5
    /\ node[5].k = "Predicate" /\ Arg(5) = <<"expr", 2>>
    /\ node[2].k \in {"And", "Or"} /\ Arg(2) = <<"expr", 3>>
    /\ node[1].k = "Name" /\ node[3].k = "Name"
    /\ IsList(doc[1])
\* what the operand Name(s) yields on the item
Operand(item, s) ==
    IF IsDict(item) /\ HasKey(item, s) THEN <<Lookup(item, s)>> ELSE <<>>
\* the strict operator k on the results l and r of its two operands
StrictSelects(k, l, r) ==
    /\ l # <<>>
    /\ r # <<>>
    /\ IF k = "Or" THEN Truthy(l[1]) \/ Truthy(r[1])
       ELSE Truthy(l[1]) /\ Truthy(r[1])

\* C15: Predicate(L.And(R)) and Predicate(L.Or(R)) select an item only if
\* both L and R yield a result on it, and then exactly when the first
\* results combine to a truthy value; an item on which either operand
\* yields nothing is not selected, for Or also when the other is truthy.
C15_BooleanStrict ==
    (IsPredicateBoolean /\ res_find[1] # NoResult) =>
        res_find[1] =
            Ok(SelectSeq(Val(doc[1]),
                         LAMBDA item :
                             StrictSelects(node[2].k,
                                           Operand(item, Arg(1)[2]),
                                           Operand(item, Arg(3)[2]))))

\* Root().Predicate(Name("a").Or(Name("b"))) on [{"a": 1}]: the right
\* operand yields nothing on the item and find returned it
C15_OrWithoutRight ==
    /\ IsProgram(PredicateBoolean("Or", <<"a">>, <<"b">>))
    /\ doc[1] = JArr(<<JObj(<< <<<<"a">>, JInt(1)>> >>)>>)
    /\ Operand(Val(doc[1])[1], <<"b">>) = <<>>
    /\ res_find[1] = Ok(Val(doc[1]))

\* the same statement for And only
C15_AndStrict ==
    (IsPredicateBoolean /\ node[2].k = "And" /\ res_find[1] # NoResult) =>
        res_find[1] =
            Ok(SelectSeq(Val(doc[1]),
                         LAMBDA item :
                             StrictSelects("And",
                                           Operand(item, Arg(1)[2]),
                                           Operand(item, Arg(3)[2]))))

\* C16: NotFound is the only error an evaluation produces: find, find_first
\* and find_iter end with values or with NotFound and with no error of
\* another kind, also for Key or a comparison with an expression on the
\* right with no self binding, for a Slice with an expression bound at the
\* head of a chain, and for a Slice of step 0.
C16_NotFoundOnly ==
    \A g \in G :
        /\ res_find[g].st # "err"
        /\ res_first[g].st # "err"
        /\ gen[g].status # "raised"

\* Key().find(doc) outside any Predicate ended with LookupError
C16_KeyWithoutSelf ==
    /\ IsProgram(LoneKey)
    /\ res_find[1] = Err("LookupError")

\* Root().Array(Slice(start, stop, 0)).find(list) ended with ValueError
C16_StepZero ==
    /\ IsRootSlice
    /\ node[2].c = <<"int", 0>>
    /\ res_find[1] = Err("ValueError")

\* Array(Slice(Name(s))).find(list) ended with LookupError
C16_SliceWithoutParent ==
    /\ \E s \in FieldNames : IsProgram(ArraySliceName(s))
    /\ IsList(doc[1])
    /\ res_find[1] = Err("LookupError")

====
